---- MODULE Spec2Model ----
(***************************************************************************)
(* Model of the DMA memory-copy controller (imxrt-hal, dma/memcpy.rs).     *)
(*                                                                         *)
(* The controller `Memcpy` wraps one hardware DMA `Channel` and an         *)
(* ownership slot `buffers: Option<(S, D)>`.  The channel (dma::Channel)   *)
(* and the Source/Destination buffer traits (dma::buffer) are modelled     *)
(* from the specification's description of their operations (sections 4    *)
(* and 6); the controller is modelled from memcpy.rs.                      *)
(***************************************************************************)
EXTENDS Integers, Sequences, FiniteSets, TLC

\* ------------------------------------------------------------------ bounds

\* Number of distinct (source, destination) buffer pairs the caller owns.
NPairs == 2
\* Largest transfer length (in elements) of a source or destination.
MaxLen == 1
\* Largest raw error status the hardware reports for a failed setup.
MaxStatus == 2

PairIds == 1..NPairs
Lens == 0..MaxLen
\* The hardware's answer to enable+start: 0 is "no error", k > 0 is a
\* configuration error with raw status k.
HwAnswers == 0..MaxStatus

Min(a, b) == IF a <= b THEN a ELSE b

\* ------------------------------------------------------------------- state

VARIABLES
    alive,      \* TRUE while a Memcpy value exists (between new and take)
    channel,    \* Memcpy::channel, the hardware channel's registers
    buffers,    \* Memcpy::buffers, the Option<(S, D)> slot (NoPair is None)
    holder,     \* who holds each pair value: "caller", "memcpy", "dropped"
    accepted,   \* id of the pair of the last transfer that returned Ok and
                \* was not yet followed by complete/cancel (0: none)
    last,       \* the most recent API call: operation, argument, result
    finished,   \* TRUE once the hardware has finished the transfer that was
                \* accepted last (the one `accepted` names)
    tempmon,    \* the TempMon value and the TEMPSENSE registers behind it
    tmlast      \* the most recent TempMon call: operation and result

dmavars == <<alive, channel, buffers, holder, accepted, last, finished>>
tmvars == <<tempmon, tmlast>>
vars == <<alive, channel, buffers, holder, accepted, last, finished,
          tempmon, tmlast>>

\* ----------------------------------------------------------- buffer values

\* Option::None of the buffers slot, and "no pair" in a call record.
NoPair ==
    [id |-> 0, slen |-> 0, dlen |-> 0,
     prepared_src |-> 0, prepared_dst |-> 0,
     completed_src |-> 0, completed_dst |-> 0]

\* A (source, destination) pair as the caller hands it to transfer: transfer
\* lengths s and d, and no hook invoked on it yet.
FreshPair(i, s, d) ==
    [id |-> i, slen |-> s, dlen |-> d,
     prepared_src |-> 0, prepared_dst |-> 0,
     completed_src |-> 0, completed_dst |-> 0]

\* buffer::Source / buffer::Destination hooks (&mut self): each records on
\* the buffer value that it ran.
prepare_source(p) == [p EXCEPT !.prepared_src = @ + 1]
prepare_destination(p) == [p EXCEPT !.prepared_dst = @ + 1]
complete_source(p) == [p EXCEPT !.completed_src = @ + 1]
complete_destination(p) == [p EXCEPT !.completed_dst = @ + 1]

\* ------------------------------------------------------- channel service

\* A channel after reset: disabled and idle, nothing programmed.
IdleChannel ==
    [enabled |-> FALSE, start |-> FALSE, active |-> FALSE,
     complete |-> FALSE, error |-> FALSE, es |-> 0,
     source |-> 0, destination |-> 0,
     minor_loop_elements |-> 0, transfer_iterations |-> 0,
     interrupt_on_completion |-> FALSE, interrupt_on_half |-> FALSE,
     trigger_from_hardware |-> FALSE, disable_on_completion |-> FALSE]

set_interrupt_on_completion(c, b) == [c EXCEPT !.interrupt_on_completion = b]
set_interrupt_on_half(c, b) == [c EXCEPT !.interrupt_on_half = b]
set_trigger_from_hardware(c, b) == [c EXCEPT !.trigger_from_hardware = b]
set_disable_on_completion(c, b) == [c EXCEPT !.disable_on_completion = b]

is_enabled(c) == c.enabled
is_active(c) == c.active
is_complete(c) == c.complete
is_error(c) == c.error
error_status(c) == c.es

set_source_transfer(c, p) == [c EXCEPT !.source = p.id]
set_destination_transfer(c, p) == [c EXCEPT !.destination = p.id]
set_minor_loop_elements(c, n) == [c EXCEPT !.minor_loop_elements = n]
set_transfer_iterations(c, n) == [c EXCEPT !.transfer_iterations = n]

\* Enabling arms the channel; disabling stops the hardware at once (a
\* scheduled or running transfer is aborted, the completion flag is kept).
set_enable(c, b) ==
    IF b THEN [c EXCEPT !.enabled = TRUE]
    ELSE [c EXCEPT !.enabled = FALSE, !.start = FALSE, !.active = FALSE]

start(c) == [c EXCEPT !.start = TRUE]
clear_error(c) == [c EXCEPT !.error = FALSE, !.es = 0]
clear_complete(c) == [c EXCEPT !.complete = FALSE]

\* The hardware's immediate answer to start: a configuration error (hw > 0)
\* raises the error indicator with status hw and the transfer is not run.
hw_setup(c, hw) ==
    IF hw > 0
    THEN [c EXCEPT !.error = TRUE, !.es = hw, !.start = FALSE]
    ELSE c

\* The answers the hardware can give to a transfer call: start is issued
\* only on a channel that passed the admission check.
StartAnswers(c) == IF is_enabled(c) THEN {0} ELSE HwAnswers

\* The engine may still read or write pair i: the channel is scheduled or
\* running with i's regions programmed.
EngineCanAccess(i) ==
    /\ channel.start \/ channel.active
    /\ channel.source = i \/ channel.destination = i

\* ------------------------------------------------------ Memcpy controller

\* What a call returns besides the new controller state.  ret is the result
\* ("Ok", "ScheduledTransfer", "Setup", "Some", "None", "true", "false"),
\* pair the buffer pair handed back to the caller (NoPair: none), es the
\* ErrorStatus of Error::Setup, steps the channel and hook calls in order.
Outcome(c, bufs, ret, pair, es, steps) ==
    [channel |-> c, buffers |-> bufs, ret |-> ret, pair |-> pair,
     es |-> es, steps |-> steps]

\* Faulty variant of new: leaves disable-on-completion on, so the hardware
\* clears the enable bit when the transfer finishes.
new_disable_on_completion(c) ==
    LET c1 == set_interrupt_on_completion(c, FALSE)
        c2 == set_interrupt_on_half(c1, FALSE)
        c3 == set_trigger_from_hardware(c2, FALSE)
        c4 == set_disable_on_completion(c3, TRUE)
    IN  Outcome(c4, NoPair, "Memcpy", NoPair, 0,
                <<"set_interrupt_on_completion", "set_interrupt_on_half",
                  "set_trigger_from_hardware", "set_disable_on_completion">>)

\* Memcpy::new: polling mode, no buffers owned.
new(c) ==
    LET c1 == set_interrupt_on_completion(c, FALSE)
        c2 == set_interrupt_on_half(c1, FALSE)
        c3 == set_trigger_from_hardware(c2, FALSE)
        c4 == set_disable_on_completion(c3, FALSE)
    IN  Outcome(c4, NoPair, "Memcpy", NoPair, 0,
                <<"set_interrupt_on_completion", "set_interrupt_on_half",
                  "set_trigger_from_hardware", "set_disable_on_completion">>)

\* The admitted part of transfer, with the length computation and the point
\* at which the error status is read left open (the faulty variants of
\* transfer below differ from the code in exactly one of them).
transfer_admitted(c, bufs, p, hw, length, status_before_clear) ==
    LET c1 == set_source_transfer(c, p)
        c2 == set_destination_transfer(c1, p)
        p1 == prepare_source(p)
        p2 == prepare_destination(p1)
        c3 == set_minor_loop_elements(c2, length)
        c4 == set_transfer_iterations(c3, 1)
        c5 == set_enable(c4, TRUE)
        c6 == hw_setup(start(c5), hw)
        pre == <<"is_enabled", "set_source_transfer",
                 "set_destination_transfer", "prepare_source",
                 "prepare_destination", "set_minor_loop_elements",
                 "set_transfer_iterations", "set_enable", "start",
                 "is_error">>
    IN  IF is_error(c6)
        THEN LET c7 == clear_error(c6)
                 es == IF status_before_clear THEN error_status(c6)
                       ELSE error_status(c7)
             IN  Outcome(c7, bufs, "Setup", p2, es,
                         pre \o <<"error_status", "clear_error">>)
        ELSE Outcome(c6, p2, "Ok", NoPair, 0, pre)

\* Faulty variant of transfer: the admission check comes after the channel
\* was programmed and the prepare hooks ran.
transfer_late_admission(c, bufs, p, hw) ==
    LET c1 == set_source_transfer(c, p)
        c2 == set_destination_transfer(c1, p)
        p2 == prepare_destination(prepare_source(p))
    IN  IF is_enabled(c)
        THEN Outcome(c2, bufs, "ScheduledTransfer", p2, 0,
                     <<"set_source_transfer", "set_destination_transfer",
                       "prepare_source", "prepare_destination",
                       "is_enabled">>)
        ELSE transfer_admitted(c, bufs, p, hw, Min(p.slen, p.dlen), TRUE)

\* Faulty variant of transfer: the length is the source's, not the minimum.
transfer_source_length(c, bufs, p, hw) ==
    IF is_enabled(c)
    THEN Outcome(c, bufs, "ScheduledTransfer", p, 0, <<"is_enabled">>)
    ELSE transfer_admitted(c, bufs, p, hw, p.slen, TRUE)

\* Faulty variant of transfer: the error status is read after clear_error.
transfer_status_after_clear(c, bufs, p, hw) ==
    IF is_enabled(c)
    THEN Outcome(c, bufs, "ScheduledTransfer", p, 0, <<"is_enabled">>)
    ELSE transfer_admitted(c, bufs, p, hw, Min(p.slen, p.dlen), FALSE)

\* Faulty variant of transfer: the channel is enabled but never started.
transfer_no_start(c, bufs, p, hw) ==
    IF is_enabled(c)
    THEN Outcome(c, bufs, "ScheduledTransfer", p, 0, <<"is_enabled">>)
    ELSE
        LET r == transfer_admitted(c, bufs, p, hw, Min(p.slen, p.dlen), TRUE)
        IN  [r EXCEPT !.channel = [@ EXCEPT !.start = FALSE]]

\* Faulty variant of transfer: the channel is enabled and started before
\* the prepare hooks run and before the length is programmed.
transfer_enable_first(c, bufs, p, hw) ==
    IF is_enabled(c)
    THEN Outcome(c, bufs, "ScheduledTransfer", p, 0, <<"is_enabled">>)
    ELSE
        LET r == transfer_admitted(c, bufs, p, hw, Min(p.slen, p.dlen), TRUE)
            pre == <<"is_enabled", "set_source_transfer",
                     "set_destination_transfer", "set_enable", "start",
                     "prepare_source", "prepare_destination",
                     "set_minor_loop_elements", "set_transfer_iterations",
                     "is_error">>
        IN  [r EXCEPT !.steps = IF r.ret = "Ok" THEN pre
                                ELSE pre \o <<"error_status", "clear_error">>]

\* Memcpy::transfer(source, destination); p is the pair passed in and hw the
\* hardware's answer to enable+start.
transfer(c, bufs, p, hw) ==
    IF is_enabled(c)
    THEN Outcome(c, bufs, "ScheduledTransfer", p, 0, <<"is_enabled">>)
    ELSE
        LET c1 == set_source_transfer(c, p)
            c2 == set_destination_transfer(c1, p)
            p1 == prepare_source(p)
            p2 == prepare_destination(p1)
            length == Min(p.slen, p.dlen)
            c3 == set_minor_loop_elements(c2, length)
            c4 == set_transfer_iterations(c3, 1)
            c5 == set_enable(c4, TRUE)
            c6 == hw_setup(start(c5), hw)
            pre == <<"is_enabled", "set_source_transfer",
                     "set_destination_transfer", "prepare_source",
                     "prepare_destination", "set_minor_loop_elements",
                     "set_transfer_iterations", "set_enable", "start",
                     "is_error">>
        IN  IF is_error(c6)
            THEN LET es == error_status(c6)
                     c7 == clear_error(c6)
                 IN  Outcome(c7, bufs, "Setup", p2, es,
                             pre \o <<"error_status", "clear_error">>)
            ELSE Outcome(c6, p2, "Ok", NoPair, 0, pre)

\* Faulty variant of cancel: returns the pair but leaves it in the slot
\* (a clone instead of Option::take).
cancel_keeps_slot(c, bufs) ==
    LET c1 == set_enable(c, FALSE)
    IN  Outcome(c1, bufs, IF bufs = NoPair THEN "None" ELSE "Some", bufs, 0,
                <<"set_enable">>)

\* Memcpy::cancel: disable the channel, take the slot.
cancel(c, bufs) ==
    LET c1 == set_enable(c, FALSE)
    IN  Outcome(c1, NoPair, IF bufs = NoPair THEN "None" ELSE "Some", bufs, 0,
                <<"set_enable">>)

\* Faulty variant of complete: the completion hooks run on the owned pair
\* whether or not the hardware reported completion.
complete_hooks_always(c, bufs) ==
    LET c1 == set_enable(clear_complete(c), FALSE)
    IN  IF bufs = NoPair
        THEN Outcome(c1, NoPair, "None", NoPair, 0,
                     <<"is_complete", "clear_complete", "set_enable">>)
        ELSE Outcome(c1, NoPair, "Some",
                     complete_destination(complete_source(bufs)), 0,
                     <<"is_complete", "clear_complete", "set_enable",
                       "complete_source", "complete_destination">>)

\* Faulty variant of complete: a finished transfer is acknowledged without
\* disabling the channel.
complete_no_disable(c, bufs) ==
    IF is_complete(c)
    THEN LET c1 == clear_complete(c)
         IN  IF bufs = NoPair
             THEN Outcome(c1, NoPair, "None", NoPair, 0,
                          <<"is_complete", "clear_complete">>)
             ELSE Outcome(c1, NoPair, "Some",
                          complete_destination(complete_source(bufs)), 0,
                          <<"is_complete", "clear_complete",
                            "complete_source", "complete_destination">>)
    ELSE LET r == cancel(c, bufs)
         IN  [r EXCEPT !.steps = <<"is_complete">> \o @]

\* Faulty variant of complete: only the source's completion hook runs.
complete_source_hook_only(c, bufs) ==
    IF is_complete(c)
    THEN LET c2 == set_enable(clear_complete(c), FALSE)
         IN  IF bufs = NoPair
             THEN Outcome(c2, NoPair, "None", NoPair, 0,
                          <<"is_complete", "clear_complete", "set_enable">>)
             ELSE Outcome(c2, NoPair, "Some", complete_source(bufs), 0,
                          <<"is_complete", "clear_complete", "set_enable",
                            "complete_source">>)
    ELSE LET r == cancel(c, bufs)
         IN  [r EXCEPT !.steps = <<"is_complete">> \o @]

\* Faulty variant of complete: a finished transfer's pair is handed back
\* but stays in the slot.
complete_keeps_slot(c, bufs) ==
    IF is_complete(c)
    THEN LET c2 == set_enable(clear_complete(c), FALSE)
         IN  IF bufs = NoPair
             THEN Outcome(c2, NoPair, "None", NoPair, 0,
                          <<"is_complete", "clear_complete", "set_enable">>)
             ELSE Outcome(c2, bufs, "Some",
                          complete_destination(complete_source(bufs)), 0,
                          <<"is_complete", "clear_complete", "set_enable",
                            "complete_source", "complete_destination">>)
    ELSE LET r == cancel(c, bufs)
         IN  [r EXCEPT !.steps = <<"is_complete">> \o @]

\* Memcpy::complete: acknowledge a finished transfer, else cancel.
complete(c, bufs) ==
    IF is_complete(c)
    THEN LET c1 == clear_complete(c)
             c2 == set_enable(c1, FALSE)
         IN  IF bufs = NoPair
             THEN Outcome(c2, NoPair, "None", NoPair, 0,
                          <<"is_complete", "clear_complete", "set_enable">>)
             ELSE Outcome(c2, NoPair, "Some",
                          complete_destination(complete_source(bufs)), 0,
                          <<"is_complete", "clear_complete", "set_enable",
                            "complete_source", "complete_destination">>)
    ELSE LET r == cancel(c, bufs)
         IN  [r EXCEPT !.steps = <<"is_complete">> \o @]

\* Faulty variant of is_complete: reading the flag also clears it.
memcpy_is_complete_clears(c, bufs) ==
    Outcome(clear_complete(c), bufs,
            IF is_complete(c) THEN "true" ELSE "false", NoPair, 0,
            <<"is_complete">>)

\* Memcpy::is_complete and Memcpy::is_active: queries of the channel.
memcpy_is_complete(c, bufs) ==
    Outcome(c, bufs, IF is_complete(c) THEN "true" ELSE "false", NoPair, 0,
            <<"is_complete">>)

memcpy_is_active(c, bufs) ==
    Outcome(c, bufs, IF is_active(c) THEN "true" ELSE "false", NoPair, 0,
            <<"is_active">>)

\* ------------------------------------------------- temperature monitor

\* Largest count the sensor reports in TEMP_CNT.
MaxCount == 2
TempCounts == 0..MaxCount

\* Rust's integer division (truncation toward zero).
Abs(a) == IF a >= 0 THEN a ELSE -a
TruncDiv(a, b) ==
    IF (a >= 0) = (b > 0) THEN Abs(a) \div Abs(b) ELSE -(Abs(a) \div Abs(b))

\* The factory calibration (OCOTP ANA1) by its three fields: room count,
\* hot count and hot temperature in degrees Celsius.
Calibrations ==
    [room_count : {8, 9}, hot_count : {4, 5}, hot_temp : {85, 90}]

\* The TEMPSENSE registers after reset: powered down, no measurement.
\* trigger is the sensor's own state: a measurement was requested and the
\* sensor has not yet started it (and so not yet cleared FINISHED).
ResetSensor ==
    [power_down |-> TRUE, measure_temp |-> FALSE, finished |-> FALSE,
     trigger |-> FALSE, temp_cnt |-> 0,
     alarm_value |-> 0, low_alarm_value |-> 0, panic_alarm_value |-> 0,
     scaler |-> 0, hot_count |-> 0, hot_temp |-> 0]

\* Register writes: TEMPSENSE0_SET / TEMPSENSE0_CLR of one field.
set_measure_temp(t) ==
    [t EXCEPT !.measure_temp = TRUE,
              !.trigger = IF t.measure_temp THEN @ ELSE TRUE]
clr_measure_temp(t) == [t EXCEPT !.measure_temp = FALSE, !.trigger = FALSE]
set_power_down(t) == [t EXCEPT !.power_down = TRUE]
clr_power_down(t) == [t EXCEPT !.power_down = FALSE]

\* The sensor starts a requested measurement and clears FINISHED.
sensor_begin(t) ==
    IF t.trigger /\ ~t.power_down
    THEN [t EXCEPT !.trigger = FALSE, !.finished = FALSE]
    ELSE t

\* What a TempMon call returns besides the new state; writes lists the
\* register writes of the call in program order.
TmOutcome(t, ret, value, writes) ==
    [tempmon |-> t, ret |-> ret, value |-> value, writes |-> writes]

\* TempMon::is_powered_up
is_powered_up(t) == ~t.power_down

\* TempMon::power_up and TempMon::power_down
power_up(t) == TmOutcome(clr_power_down(t), "unit", 0, <<"clr_power_down">>)
power_down(t) == TmOutcome(set_power_down(t), "unit", 0, <<"set_power_down">>)

\* Uninitialized::init with calibration cal.
init(t, cal) ==
    LET n1_room_count == cal.room_count
        t1_room_temp == 25000
        n2_hot_count == cal.hot_count
        t2_hot_temp == cal.hot_temp * 1000
        scaler == TruncDiv(t2_hot_temp - t1_room_temp,
                           n1_room_count - n2_hot_count)
    IN  power_up([t EXCEPT !.scaler = scaler, !.hot_count = n2_hot_count,
                           !.hot_temp = t2_hot_temp]).tempmon

\* TempMon::convert
convert(t, temp_cnt) ==
    LET n_meas == temp_cnt - t.hot_count
    IN  t.hot_temp - n_meas * t.scaler

\* Largest count an alarm field (ALARM_VALUE, LOW_ALARM_VALUE,
\* PANIC_ALARM_VALUE) holds, and the alarm temperatures callers ask for in
\* milli-Celsius.
MaxAlarmCount == 7
AlarmCounts == 0..MaxAlarmCount
AlarmTemps == {-5000, 55000, 65000, 70000, 85000, 95000}

\* A value as an alarm field keeps it: the u32 of decode's cast, cut to the
\* width of the field.
AlarmField(x) == x % (MaxAlarmCount + 1)

\* TempMon::decode; the result is the signed difference, which the cast
\* (as u32) and the register write turn into the field value (AlarmField).
decode(t, temp_value_mc) ==
    LET v == TruncDiv(temp_value_mc - t.hot_temp, t.scaler)
    IN  t.hot_count - v

\* TempMon::set_alarm_values
set_alarm_values(t, low_alarm_mc, high_alarm_mc, panic_alarm_mc) ==
    LET low_alarm == decode(t, low_alarm_mc)
        high_alarm == decode(t, high_alarm_mc)
        panic_alarm == decode(t, panic_alarm_mc)
    IN  [t EXCEPT !.alarm_value = AlarmField(high_alarm),
                  !.low_alarm_value = AlarmField(low_alarm),
                  !.panic_alarm_value = AlarmField(panic_alarm)]

\* A variant of alarm_values that returns the temperatures in the order in
\* which the registers are read (high first).
alarm_values_register_order(t) ==
    <<convert(t, t.alarm_value), convert(t, t.low_alarm_value),
      convert(t, t.panic_alarm_value)>>

\* TempMon::alarm_values
alarm_values(t) ==
    LET high_alarm == t.alarm_value
        low_alarm == t.low_alarm_value
        panic_alarm == t.panic_alarm_value
    IN  <<convert(t, low_alarm), convert(t, high_alarm),
          convert(t, panic_alarm)>>

\* TempMon::measure_temp; quick tells whether the sensor has started the
\* measurement this call requested (and cleared FINISHED) by the time the
\* call reads FINISHED.
\* A variant of measure_temp that leaves MEASURE_TEMP set when it returns
\* the temperature.
measure_temp_keeps_bit(t, quick) ==
    IF ~is_powered_up(t)
    THEN TmOutcome(t, "PowerDown", 0, <<>>)
    ELSE
        LET active == t.measure_temp
            t1 == IF ~active THEN set_measure_temp(t) ELSE t
            w1 == IF ~active THEN <<"set_measure_temp">> ELSE <<>>
            t2 == IF quick THEN sensor_begin(t1) ELSE t1
        IN  IF ~t2.finished
            THEN TmOutcome(t2, "WouldBlock", 0, w1)
            ELSE TmOutcome(t2, "Ok", convert(t2, t2.temp_cnt), w1)

measure_temp(t, quick) ==
    IF ~is_powered_up(t)
    THEN TmOutcome(t, "PowerDown", 0, <<>>)
    ELSE
        LET active == t.measure_temp
            t1 == IF ~active THEN set_measure_temp(t) ELSE t
            w1 == IF ~active THEN <<"set_measure_temp">> ELSE <<>>
            t2 == IF quick THEN sensor_begin(t1) ELSE t1
        IN  IF ~t2.finished
            THEN TmOutcome(t2, "WouldBlock", 0, w1)
            ELSE LET t3 == clr_measure_temp(t2)
                 IN  TmOutcome(t3, "Ok", convert(t3, t3.temp_cnt),
                               w1 \o <<"clr_measure_temp">>)

\* TempMon::get_temp
get_temp(t) ==
    IF is_powered_up(t)
    THEN TmOutcome(t, "Ok", convert(t, t.temp_cnt), <<>>)
    ELSE TmOutcome(t, "PowerDown", 0, <<>>)

\* A variant of start that writes MEASURE_TEMP whatever the power state.
tm_start_unchecked(t) ==
    TmOutcome(set_measure_temp(t),
              IF is_powered_up(t) THEN "Ok" ELSE "PowerDown", 0,
              <<"set_measure_temp">>)

\* TempMon::start
tm_start(t) ==
    IF is_powered_up(t)
    THEN TmOutcome(set_measure_temp(t), "Ok", 0, <<"set_measure_temp">>)
    ELSE TmOutcome(t, "PowerDown", 0, <<>>)

\* TempMon::stop
tm_stop(t) == TmOutcome(clr_measure_temp(t), "unit", 0, <<"clr_measure_temp">>)

\* No TempMon call yet.
NoTempCall ==
    [tick |-> 0, op |-> "init", ret |-> "TempMon", value |-> 0,
     writes |-> <<"clr_power_down">>]

\* ----------------------------------------------------------------- actions

\* The record of a call: a call always flips tick, so that a call is a step
\* even when it changes nothing else.
Call(op, arg, hw, r) ==
    [tick |-> 1 - last.tick, op |-> op, arg |-> arg, hw |-> hw,
     ret |-> r.ret, pair |-> r.pair, es |-> r.es, steps |-> r.steps]

\* Ownership after a call: the pair passed in leaves the caller, the pair in
\* the slot is the controller's, the pair handed back is the caller's, and
\* a pair that was in the slot and is neither is dropped.
Moved(arg, old, r) ==
    [i \in PairIds |->
        IF r.pair.id = i THEN "caller"
        ELSE IF r.buffers.id = i THEN "memcpy"
        ELSE IF old.id = i \/ arg.id = i THEN "dropped"
        ELSE holder[i]]

DmaInit ==
    /\ alive = TRUE
    /\ channel = new(IdleChannel).channel
    /\ buffers = new(IdleChannel).buffers
    /\ holder = [i \in PairIds |-> "caller"]
    /\ accepted = 0
    /\ last = [tick |-> 0, op |-> "new", arg |-> NoPair, hw |-> 0,
               ret |-> "Memcpy", pair |-> NoPair, es |-> 0,
               steps |-> new(IdleChannel).steps]
    /\ finished = FALSE

\* The controller's specification starts with the temperature monitor
\* initialised and leaves it alone.
Init ==
    /\ DmaInit
    /\ tempmon = init(ResetSensor, CHOOSE cal \in Calibrations : TRUE)
    /\ tmlast = NoTempCall

\* Memcpy::new(channel) on the channel a previous controller gave back.
New ==
    /\ ~alive
    /\ LET r == new(channel)
       IN  /\ alive' = TRUE
           /\ channel' = r.channel
           /\ buffers' = r.buffers
           /\ last' = Call("new", NoPair, 0, r)
    /\ accepted' = 0
    /\ finished' = FALSE
    /\ UNCHANGED holder
    /\ UNCHANGED tmvars

\* Memcpy::take(self): the channel is handed back as it is; the slot is
\* dropped with the controller.
Take ==
    /\ alive
    /\ alive' = FALSE
    /\ buffers' = NoPair
    /\ holder' = [i \in PairIds |->
                    IF buffers.id = i THEN "dropped" ELSE holder[i]]
    /\ accepted' = 0
    /\ last' = Call("take", NoPair, 0,
                    Outcome(channel, NoPair, "Channel", NoPair, 0, <<>>))
    /\ finished' = FALSE
    /\ UNCHANGED channel
    /\ UNCHANGED tmvars

Transfer ==
    /\ alive
    /\ \E i \in {j \in PairIds : holder[j] = "caller"}, s \in Lens, d \in Lens,
          hw \in StartAnswers(channel) :
        LET p == FreshPair(i, s, d)
            r == transfer(channel, buffers, p, hw)
        IN  /\ channel' = r.channel
            /\ buffers' = r.buffers
            /\ holder' = Moved(p, buffers, r)
            /\ accepted' = IF r.ret = "Ok" THEN i ELSE accepted
            /\ finished' = IF r.ret = "Ok" THEN FALSE ELSE finished
            /\ last' = Call("transfer", p, hw, r)
    /\ UNCHANGED alive
    /\ UNCHANGED tmvars

IsComplete ==
    /\ alive
    /\ LET r == memcpy_is_complete(channel, buffers)
       IN  /\ channel' = r.channel
           /\ buffers' = r.buffers
           /\ last' = Call("is_complete", NoPair, 0, r)
    /\ UNCHANGED <<alive, holder, accepted, finished>>
    /\ UNCHANGED tmvars

IsActive ==
    /\ alive
    /\ LET r == memcpy_is_active(channel, buffers)
       IN  /\ channel' = r.channel
           /\ buffers' = r.buffers
           /\ last' = Call("is_active", NoPair, 0, r)
    /\ UNCHANGED <<alive, holder, accepted, finished>>
    /\ UNCHANGED tmvars

Complete ==
    /\ alive
    /\ LET r == complete(channel, buffers)
       IN  /\ channel' = r.channel
           /\ buffers' = r.buffers
           /\ holder' = Moved(NoPair, buffers, r)
           /\ last' = Call("complete", NoPair, 0, r)
    /\ accepted' = 0
    /\ finished' = FALSE
    /\ UNCHANGED alive
    /\ UNCHANGED tmvars

Cancel ==
    /\ alive
    /\ LET r == cancel(channel, buffers)
       IN  /\ channel' = r.channel
           /\ buffers' = r.buffers
           /\ holder' = Moved(NoPair, buffers, r)
           /\ last' = Call("cancel", NoPair, 0, r)
    /\ accepted' = 0
    /\ finished' = FALSE
    /\ UNCHANGED alive
    /\ UNCHANGED tmvars

\* The DMA engine picks up a started channel.
HwBegin ==
    /\ channel.start
    /\ channel' = [channel EXCEPT !.start = FALSE, !.active = TRUE]
    /\ UNCHANGED <<alive, buffers, holder, accepted, last, finished>>
    /\ UNCHANGED tmvars

\* The DMA engine finishes the transfer (the single major-loop iteration)
\* and raises the completion flag; with disable-on-completion it also
\* clears the enable bit.
HwFinish ==
    /\ channel.active
    /\ channel' = [channel EXCEPT !.active = FALSE, !.complete = TRUE,
                     !.enabled = IF channel.disable_on_completion
                                 THEN FALSE ELSE @]
    /\ finished' = (accepted # 0)
    /\ UNCHANGED <<alive, buffers, holder, accepted, last>>
    /\ UNCHANGED tmvars

Next ==
    \/ New
    \/ Take
    \/ Transfer
    \/ IsComplete
    \/ IsActive
    \/ Complete
    \/ Cancel
    \/ HwBegin
    \/ HwFinish

Spec == Init /\ [][Next]_vars

\* The controller under fair progress of the DMA engine: a started channel
\* is eventually picked up and a running transfer eventually finishes.
FairSpec == Spec /\ WF_vars(HwBegin) /\ WF_vars(HwFinish)

\* ------------------------------------------- temperature monitor actions

\* The record of a TempMon call.
TmCall(op, r) ==
    [tick |-> 1 - tmlast.tick, op |-> op, ret |-> r.ret, value |-> r.value,
     writes |-> r.writes]

\* Uninitialized::init on the part as it comes out of reset, for every
\* calibration; the DMA controller is left alone.
TempInit ==
    /\ DmaInit
    /\ tempmon \in {init(ResetSensor, cal) : cal \in Calibrations}
    /\ tmlast = NoTempCall

TmMeasureTemp ==
    /\ \E quick \in BOOLEAN :
           LET r == measure_temp(tempmon, quick)
           IN  /\ tempmon' = r.tempmon
               /\ tmlast' = TmCall("measure_temp", r)
    /\ UNCHANGED dmavars

TmGetTemp ==
    /\ LET r == get_temp(tempmon)
       IN  /\ tempmon' = r.tempmon
           /\ tmlast' = TmCall("get_temp", r)
    /\ UNCHANGED dmavars

TmStart ==
    /\ LET r == tm_start(tempmon)
       IN  /\ tempmon' = r.tempmon
           /\ tmlast' = TmCall("start", r)
    /\ UNCHANGED dmavars

TmStop ==
    /\ LET r == tm_stop(tempmon)
       IN  /\ tempmon' = r.tempmon
           /\ tmlast' = TmCall("stop", r)
    /\ UNCHANGED dmavars

TmPowerDown ==
    /\ LET r == power_down(tempmon)
       IN  /\ tempmon' = r.tempmon
           /\ tmlast' = TmCall("power_down", r)
    /\ UNCHANGED dmavars

TmPowerUp ==
    /\ LET r == power_up(tempmon)
       IN  /\ tempmon' = r.tempmon
           /\ tmlast' = TmCall("power_up", r)
    /\ UNCHANGED dmavars

\* The sensor starts the requested measurement: it clears FINISHED.
SensorBegin ==
    /\ tempmon.trigger
    /\ ~tempmon.power_down
    /\ tempmon' = sensor_begin(tempmon)
    /\ UNCHANGED tmlast
    /\ UNCHANGED dmavars

\* The sensor ends the measurement: it latches the count and sets FINISHED.
SensorFinish ==
    /\ tempmon.measure_temp
    /\ ~tempmon.trigger
    /\ ~tempmon.finished
    /\ ~tempmon.power_down
    /\ \E cnt \in TempCounts :
           tempmon' = [tempmon EXCEPT !.finished = TRUE, !.temp_cnt = cnt]
    /\ UNCHANGED tmlast
    /\ UNCHANGED dmavars

TempNext ==
    \/ TmMeasureTemp
    \/ TmGetTemp
    \/ TmStart
    \/ TmStop
    \/ TmPowerDown
    \/ TmPowerUp
    \/ SensorBegin
    \/ SensorFinish

TempSpec == TempInit /\ [][TempNext]_vars

\* set_alarm_values with every choice of the three temperatures; the
\* record keeps the arguments.
TmSetAlarmValues ==
    /\ \E low \in AlarmTemps, high \in AlarmTemps, panic \in AlarmTemps :
           /\ tempmon' = set_alarm_values(tempmon, low, high, panic)
           /\ tmlast' = [tick |-> 1 - tmlast.tick, op |-> "set_alarm_values",
                         ret |-> "unit", value |-> 0,
                         writes |-> <<"alarm_value", "low_panic_alarm_value">>,
                         args |-> <<low, high, panic>>,
                         result |-> <<>>]
    /\ UNCHANGED dmavars

\* alarm_values; the record keeps the arguments of the set_alarm_values
\* call whose values it reads (none before the first such call).
TmAlarmValues ==
    /\ tempmon' = tempmon
    /\ tmlast' = [tick |-> 1 - tmlast.tick, op |-> "alarm_values",
                  ret |-> "triple", value |-> 0, writes |-> <<>>,
                  args |-> IF tmlast.op \in {"set_alarm_values",
                                              "alarm_values"}
                           THEN tmlast.args ELSE <<>>,
                  result |-> alarm_values(tempmon)]
    /\ UNCHANGED dmavars

AlarmNext ==
    \/ TmSetAlarmValues
    \/ TmAlarmValues

\* The alarm registers under set_alarm_values and alarm_values, for every
\* calibration.
AlarmSpec == TempInit /\ [][AlarmNext]_vars

\* The sensor makes progress and the caller keeps polling measure_temp.
TempFairSpec ==
    TempSpec /\ WF_vars(SensorBegin) /\ WF_vars(SensorFinish)
             /\ WF_vars(TmMeasureTemp)

\* ------------------------------------------------------------------ claims

\* A step that is an API call (every call flips last.tick).
CallStep(op) == last'.tick # last.tick /\ last'.op = op

\* C1 (as stated): a pair the DMA engine can still read or write is held by
\* the controller's buffers slot and not by the caller.
C1_EngineAccessedPairInSlot ==
    \A i \in PairIds :
        EngineCanAccess(i) => (buffers.id = i /\ holder[i] = "memcpy")

\* C2: transfer called while the channel reports enabled returns
\* Error::ScheduledTransfer with exactly the pair passed in, invokes no
\* prepare hook, writes no channel register and leaves the slot as it was.
C2_RejectedTransferChangesNothing ==
    [][(CallStep("transfer") /\ is_enabled(channel)) =>
          /\ last'.ret = "ScheduledTransfer"
          /\ last'.pair = last'.arg
          /\ last'.pair.prepared_src = 0 /\ last'.pair.prepared_dst = 0
          /\ last'.steps = <<"is_enabled">>
          /\ channel' = channel
          /\ buffers' = buffers
          /\ holder' = holder]_vars

C2_Witness ==
    /\ last.op = "transfer" /\ last.ret = "ScheduledTransfer"
    /\ last.pair = last.arg /\ last.arg.id # 0
    /\ buffers # NoPair /\ buffers.id # last.arg.id

\* C3: once transfer has returned Ok, every further transfer call is
\* rejected with Error::ScheduledTransfer until complete() or cancel() has
\* been called, also after the hardware has set the completion flag.
C3_OneOutstandingTransfer ==
    [][(CallStep("transfer") /\ accepted # 0) =>
          last'.ret = "ScheduledTransfer"]_vars

C3_Witness ==
    /\ last.op = "transfer" /\ last.ret = "ScheduledTransfer"
    /\ accepted # 0 /\ accepted # last.arg.id
    /\ is_complete(channel) /\ ~is_active(channel)

\* C4 (as stated): between calls the buffers slot is populated if and only
\* if the channel is enabled.
C4_SlotPopulatedIffEnabled ==
    alive => ((buffers # NoPair) <=> is_enabled(channel))

\* C5: ownership round trip.  A pair passed to transfer comes back in the
\* Err of that call or, after Ok, is handed back exactly once, as Some of
\* that pair, by the first complete() or cancel() that follows; no other
\* pair is handed back, none twice, and none is lost by these calls.
C5_OwnershipRoundTrip ==
    [][/\ CallStep("transfer") =>
            IF last'.ret = "Ok"
            THEN /\ last'.pair = NoPair
                 /\ buffers'.id = last'.arg.id
                 /\ holder'[last'.arg.id] = "memcpy"
                 /\ \A i \in PairIds : holder'[i] = "dropped"
                                          => holder[i] = "dropped"
            ELSE /\ last'.pair.id = last'.arg.id
                 /\ holder' = holder
       /\ (CallStep("complete") \/ CallStep("cancel")) =>
            IF accepted # 0
            THEN /\ last'.ret = "Some"
                 /\ last'.pair.id = accepted
                 /\ holder[accepted] = "memcpy"
                 /\ holder' = [holder EXCEPT ![accepted] = "caller"]
                 /\ buffers' = NoPair
            ELSE /\ last'.ret = "None"
                 /\ last'.pair = NoPair
                 /\ holder' = holder]_vars

C5_Witness ==
    /\ last.op = "cancel" /\ last.ret = "Some"
    /\ last.pair.id # 0 /\ holder[last.pair.id] = "caller"
    /\ buffers = NoPair /\ accepted = 0
    /\ \E i \in PairIds : i # last.pair.id /\ holder[i] = "caller"

C7_RetryAfterSetupError ==
    [][(CallStep("transfer") /\ last.op = "transfer" /\ last.ret = "Setup")
          => last'.ret # "ScheduledTransfer"]_vars

\* C8: a transfer that passes the admission check programs the minor-loop
\* element count to the smaller of the two lengths and the iteration count
\* to 1, and its result depends on the hardware's answer alone: differing
\* lengths are never an error.
C8_LengthIsMinimum ==
    [][(CallStep("transfer") /\ ~is_enabled(channel)) =>
          /\ channel'.minor_loop_elements <= last'.arg.slen
          /\ channel'.minor_loop_elements <= last'.arg.dlen
          /\ channel'.minor_loop_elements \in {last'.arg.slen, last'.arg.dlen}
          /\ channel'.transfer_iterations = 1
          /\ last'.ret = (IF last'.hw = 0 THEN "Ok" ELSE "Setup")]_vars

C8_Witness ==
    /\ last.op = "transfer" /\ last.ret = "Ok"
    /\ last.arg.slen = MaxLen /\ last.arg.dlen = MaxLen - 1
    /\ buffers.id = last.arg.id
    /\ channel.minor_loop_elements = MaxLen - 1
    /\ channel.transfer_iterations = 1

\* C9: in every state in which is_complete() is false, complete() and
\* cancel() return the same value and lead to the same controller and
\* channel state: channel disabled, slot empty, and the pair handed back is
\* the owned pair with no completion hook invoked on it.
C9_CompleteBeforeDoneIsCancel ==
    (alive /\ memcpy_is_complete(channel, buffers).ret = "false") =>
        LET a == complete(channel, buffers)
            b == cancel(channel, buffers)
        IN  /\ a.ret = b.ret
            /\ a.pair = b.pair
            /\ a.channel = b.channel
            /\ a.buffers = b.buffers
            /\ ~is_enabled(a.channel)
            /\ a.buffers = NoPair
            /\ a.pair = buffers

C9_Witness ==
    /\ last.op = "complete" /\ last.ret = "Some"
    /\ last.pair.completed_src = 0 /\ last.pair.completed_dst = 0
    /\ last.pair.prepared_src = 1
    /\ ~is_complete(channel) /\ ~is_enabled(channel) /\ buffers = NoPair

\* C10 (as stated): cancel() with no outstanding transfer returns None and
\* leaves the controller and the channel unchanged.
C10_CancelWhenIdleIsNoOp ==
    [][(CallStep("cancel") /\ accepted = 0 /\ buffers = NoPair) =>
          /\ last'.ret = "None"
          /\ channel' = channel
          /\ buffers' = buffers
          /\ holder' = holder]_vars

\* The last call was a complete() that found is_complete() true.
Acknowledged ==
    /\ last.op = "complete"
    /\ Len(last.steps) >= 2 /\ last.steps[2] = "clear_complete"

\* C11: a complete() called while is_complete() is true leaves the slot
\* empty, the completion flag clear and the channel disabled, and the
\* transfer call that follows it is not rejected with ScheduledTransfer.
C11_TransferAdmissibleAfterComplete ==
    [][/\ (CallStep("complete") /\ is_complete(channel)) =>
            /\ buffers' = NoPair
            /\ ~is_complete(channel')
            /\ ~is_enabled(channel')
       /\ (CallStep("transfer") /\ Acknowledged) =>
            last'.ret \in {"Ok", "Setup"}]_vars

C11_Witness ==
    /\ Acknowledged /\ last.ret = "Some"
    /\ last.pair.completed_src = 1 /\ last.pair.completed_dst = 1
    /\ buffers = NoPair /\ ~is_complete(channel) /\ ~is_enabled(channel)

\* C12: a transfer call on a disabled channel with no setup error returns
\* Ok at once, with the channel started and the transfer not yet finished;
\* then, under fair progress of the DMA engine, is_active() or
\* is_complete() becomes true unless a further controller call comes first.
C12_AcceptedTransferProgresses ==
    /\ [][(CallStep("transfer") /\ ~is_enabled(channel) /\ last'.hw = 0) =>
            /\ last'.ret = "Ok"
            /\ channel'.start /\ ~is_active(channel')
            /\ ~finished']_vars
    /\ \A t \in {0, 1} :
          (alive /\ last.op = "transfer" /\ last.ret = "Ok" /\ last.tick = t)
             ~> (is_active(channel) \/ is_complete(channel) \/ last.tick # t)

C12_Witness ==
    /\ alive /\ last.op = "transfer" /\ last.ret = "Ok"
    /\ is_active(channel) /\ ~is_complete(channel)

\* C13: complete() called while is_complete() is true clears the completion
\* flag, disables the channel and hands back the owned pair after exactly
\* one complete_source and one complete_destination on it (None when no
\* pair is owned); no other call invokes a completion hook, and a pair that
\* cancel() hands back is the owned pair as it was.
C13_CompletionHooksOnce ==
    [][/\ (CallStep("complete") /\ is_complete(channel)) =>
            /\ ~is_complete(channel') /\ ~is_enabled(channel')
            /\ IF buffers = NoPair
               THEN last'.ret = "None" /\ last'.pair = NoPair
               ELSE /\ last'.ret = "Some"
                    /\ last'.pair = [buffers EXCEPT !.completed_src = 1,
                                                    !.completed_dst = 1]
                    /\ buffers.completed_src = 0
                    /\ buffers.completed_dst = 0
       /\ (CallStep("complete") /\ ~is_complete(channel)) =>
            last'.pair = buffers
       /\ CallStep("cancel") => last'.pair = buffers
       /\ CallStep("transfer") =>
            /\ last'.pair.completed_src = 0 /\ last'.pair.completed_dst = 0
            /\ buffers'.completed_src = 0 /\ buffers'.completed_dst = 0]_vars

C13_Witness ==
    /\ Acknowledged /\ last.ret = "Some"
    /\ last.pair.completed_src = 1 /\ last.pair.completed_dst = 1
    /\ last.pair.prepared_src = 1 /\ holder[last.pair.id] = "caller"
    /\ last.steps = <<"is_complete", "clear_complete", "set_enable",
                      "complete_source", "complete_destination">>

\* C14 (as stated): after an accepted transfer, is_complete() is true only
\* if the hardware has finished that transfer, never because of a
\* completion flag left over from an earlier one.
C14_CompleteMeansLastTransferFinished ==
    (alive /\ accepted # 0
       /\ memcpy_is_complete(channel, buffers).ret = "true") => finished

\* C15: is_complete() and is_active() return the channel's completion flag
\* and activity indicator and change neither the slot nor the channel,
\* with or without an owned pair.
C15_QueriesArePure ==
    [][/\ CallStep("is_complete") =>
            /\ last'.ret = (IF channel.complete THEN "true" ELSE "false")
            /\ channel' = channel /\ buffers' = buffers
            /\ holder' = holder /\ last'.pair = NoPair
       /\ CallStep("is_active") =>
            /\ last'.ret = (IF channel.active THEN "true" ELSE "false")
            /\ channel' = channel /\ buffers' = buffers
            /\ holder' = holder /\ last'.pair = NoPair]_vars

C15_Witness ==
    /\ last.op = "is_complete" /\ last.ret = "true"
    /\ is_complete(channel) /\ is_enabled(channel) /\ buffers # NoPair

\* C16 (as stated): whatever state the channel is in, new(channel) returns
\* a controller that owns no buffers, whose channel is not armed, and with
\* both interrupts, the hardware trigger and disable-on-completion off.
C16_NewLeavesChannelUnarmed ==
    [][CallStep("new") =>
          /\ buffers' = NoPair
          /\ ~is_enabled(channel') /\ ~channel'.start
          /\ ~channel'.interrupt_on_completion
          /\ ~channel'.interrupt_on_half
          /\ ~channel'.trigger_from_hardware
          /\ ~channel'.disable_on_completion]_vars

\* Position of call x in the sequence of steps st (0: not in it).
Pos(st, x) ==
    IF \E k \in 1..Len(st) : st[k] = x
    THEN CHOOSE k \in 1..Len(st) : st[k] = x
    ELSE 0

\* C18: in an accepted transfer call the addresses, both prepare hooks, the
\* length and the iteration count all come before set_enable, set_enable
\* before start and start before is_error; a pair in the slot, and so any
\* pair the hardware was armed on by this controller, has had both prepare
\* hooks run.
C18_PrepareBeforeArm ==
    /\ (last.op = "transfer" /\ last.ret \in {"Ok", "Setup"}) =>
          LET st == last.steps
          IN  /\ \A x \in {"set_source_transfer", "set_destination_transfer",
                           "prepare_source", "prepare_destination",
                           "set_minor_loop_elements",
                           "set_transfer_iterations"} :
                    0 < Pos(st, x) /\ Pos(st, x) < Pos(st, "set_enable")
              /\ Pos(st, "set_enable") < Pos(st, "start")
              /\ Pos(st, "start") < Pos(st, "is_error")
              /\ last.ret = "Setup" => last.pair.prepared_src = 1
                                       /\ last.pair.prepared_dst = 1
    /\ buffers # NoPair =>
          buffers.prepared_src = 1 /\ buffers.prepared_dst = 1

C18_Witness ==
    /\ last.op = "transfer" /\ last.ret = "Ok"
    /\ Pos(last.steps, "prepare_destination") = 5
    /\ Pos(last.steps, "set_enable") = 8
    /\ channel.start /\ EngineCanAccess(buffers.id)
    /\ buffers.prepared_src = 1 /\ buffers.prepared_dst = 1

\* C19: whenever the channel is not enabled, so that transfer would pass
\* the admission check, the buffers slot is empty: storing the new pair
\* never drops an owned one.
C19_AdmissionImpliesEmptySlot ==
    (alive /\ ~is_enabled(channel)) => buffers = NoPair

C19_Witness ==
    /\ last.op = "transfer" /\ last.ret = "Ok"
    /\ buffers.id = last.arg.id
    /\ is_complete(channel) /\ ~finished
    /\ \A i \in PairIds : holder[i] # "dropped"

\* A step that is a call of the TempMon method op.
TmCallStep(op) == tmlast'.tick # tmlast.tick /\ tmlast'.op = op

\* C17: measure_temp, get_temp and start return the power-down error
\* exactly when the module is powered down at the call, and then they write
\* no register (MEASURE_TEMP unchanged, no measurement triggered). The
\* module is powered up after init, and the power state changes only in
\* power_up (to powered up) and power_down (to powered down), so after
\* power_up the error is not returned until power_down is called.
C17_PowerDownErrorIffPoweredDown ==
    /\ ~tempmon.power_down
    /\ [][ /\ \A op \in {"measure_temp", "get_temp", "start"} :
                TmCallStep(op) =>
                  /\ (tmlast'.ret = "PowerDown") <=> tempmon.power_down
                  /\ tempmon.power_down =>
                       /\ tmlast'.writes = <<>>
                       /\ tempmon' = tempmon
           /\ tempmon'.power_down # tempmon.power_down =>
                \/ TmCallStep("power_up") /\ ~tempmon'.power_down
                \/ TmCallStep("power_down") /\ tempmon'.power_down
           /\ TmCallStep("power_up") => ~tempmon'.power_down
         ]_vars

\* start was refused on a powered-down module with a measurement pending
\* from before the power-down.
C17_Witness ==
    /\ tmlast.op = "start"
    /\ tmlast.ret = "PowerDown"
    /\ tempmon.power_down
    /\ tempmon.measure_temp

\* C20: on a powered-up module a measure_temp call sets MEASURE_TEMP
\* exactly when no measurement is active; it returns WouldBlock while
\* FINISHED is not set, and such a call on an active measurement writes
\* nothing; when FINISHED is set it clears MEASURE_TEMP and returns Ok with
\* the converted count, so the next call triggers again. With a sensor that
\* makes progress and a caller that only polls measure_temp, a WouldBlock is
\* eventually followed by Ok.
C20_MeasureTempProtocol ==
    /\ [][ (TmCallStep("measure_temp") /\ ~tempmon.power_down) =>
             LET wrote(w) == \E i \in DOMAIN tmlast'.writes :
                                 tmlast'.writes[i] = w
             IN  /\ wrote("set_measure_temp") <=> ~tempmon.measure_temp
                 /\ tmlast'.ret \in {"WouldBlock", "Ok"}
                 /\ tmlast'.ret = "WouldBlock" <=> ~tempmon'.finished
                 /\ tmlast'.ret = "WouldBlock" =>
                      /\ tempmon'.measure_temp
                      /\ ~wrote("clr_measure_temp")
                      /\ tempmon.measure_temp => tmlast'.writes = <<>>
                 /\ tmlast'.ret = "Ok" =>
                      /\ wrote("clr_measure_temp")
                      /\ ~tempmon'.measure_temp
                      /\ tmlast'.value =
                           tempmon.hot_temp
                           - (tempmon'.temp_cnt - tempmon.hot_count)
                             * tempmon.scaler
         ]_vars
    /\ (tmlast.op = "measure_temp" /\ tmlast.ret = "WouldBlock")
         ~> \/ tmlast.op = "measure_temp" /\ tmlast.ret = "Ok"
            \/ tmlast.op # "measure_temp"

\* measure_temp returned a temperature the sensor measured after a call
\* that had to wait.
C20_Witness ==
    /\ tmlast.op = "measure_temp"
    /\ tmlast.ret = "Ok"
    /\ tmlast.writes = <<"clr_measure_temp">>
    /\ tempmon.temp_cnt > 0
    /\ ~tempmon.measure_temp

\* alarm_values has just returned after a set_alarm_values call whose three
\* temperatures all encode to counts the alarm fields hold, on a
\* calibration with a non-zero scaler.
AlarmsReadBack ==
    /\ tmlast.op = "alarm_values"
    /\ tmlast.args # <<>>
    /\ tempmon.scaler # 0
    /\ \A i \in 1..3 : decode(tempmon, tmlast.args[i]) \in AlarmCounts

\* The temperature of the count nearest to temp on the side of hot_temp.
Quantized(t, temp) ==
    t.hot_temp + TruncDiv(temp - t.hot_temp, t.scaler) * t.scaler

\* C21 as stated: alarm_values after set_alarm_values(low, high, panic)
\* returns (low, high, panic) in that order, that is
\* convert(decode(t)) = t for each of them, and decode(convert(c)) = c for
\* every count c.
C21_AlarmRoundTrip ==
    AlarmsReadBack =>
        /\ tmlast.result = tmlast.args
        /\ \A i \in 1..3 :
               convert(tempmon, decode(tempmon, tmlast.args[i]))
                 = tmlast.args[i]
        /\ \A c \in AlarmCounts :
               AlarmField(decode(tempmon, convert(tempmon, c))) = c

\* C21 amended: alarm_values after set_alarm_values(low, high, panic)
\* returns, in that order, each temperature moved to the temperature of a
\* whole count: toward hot_temp, by less than one scaler step, and not at
\* all exactly when the temperature lies a whole number of scaler steps from
\* hot_temp; decode(convert(c)) = c for every count c.
C21_AlarmRoundTripQuantized ==
    AlarmsReadBack =>
        /\ \A i \in 1..3 :
               LET t == tmlast.args[i]
                   r == tmlast.result[i]
               IN  /\ r = Quantized(tempmon, t)
                   /\ Abs(r - t) < Abs(tempmon.scaler)
                   /\ Abs(r - tempmon.hot_temp) <= Abs(t - tempmon.hot_temp)
                   /\ (r = t) <=>
                        (TruncDiv(t - tempmon.hot_temp, tempmon.scaler)
                           * tempmon.scaler = t - tempmon.hot_temp)
        /\ \A c \in AlarmCounts :
               AlarmField(decode(tempmon, convert(tempmon, c))) = c

\* Three different temperatures came back unchanged and in order.
C21_Witness ==
    /\ AlarmsReadBack
    /\ tmlast.args[1] < tmlast.args[2]
    /\ tmlast.args[2] < tmlast.args[3]
    /\ tmlast.result = tmlast.args

====
